---- MODULE Spec2Model ----
(***************************************************************************)
(* A model of @typescript/server-harness (src/src/index.ts): the harness   *)
(* that forks a tsserver worker, frames its stdout into JSON objects,      *)
(* pairs responses with requests by sequence number, fans events out to    *)
(* listeners and shuts the worker down (exitOrKill, kill).                 *)
(*                                                                         *)
(* Granularity.  Node runs one callback to completion and then drains the  *)
(* promise jobs it queued before the next I/O callback or timer runs.      *)
(* Each action below is therefore one such turn: the synchronous body of   *)
(* a call or of an event handler, followed by the continuations ("await",  *)
(* ".catch") that the turn made runnable.                                  *)
(***************************************************************************)
EXTENDS Integers, Sequences, FiniteSets, TLC

(***************************************************************************)
(* Bounds of the model (not constants of the program).                     *)
(***************************************************************************)
\* message() calls the driver makes in one run
MaxCalls == 2
\* objects the worker hands to handleMessage in one run (native channel)
MaxDeliveries == 2
\* listeners the driver registers with on() in one run
MaxListeners == 3
\* frames the worker writes to stdout in one run
MaxFrames == 2

(***************************************************************************)
(* JavaScript values.  TLC compares only values of one kind, so "undefined"*)
(* has one stand-in per kind of value.                                     *)
(***************************************************************************)
\* The caller-assigned sequence numbers.  The harness only uses them as Map
\* keys, so two of them show every case of "the same" and "another" number.
Seqs == {1, 2}
\* Map keys: a request_seq read off a worker object may be undefined, written 0
Keys == {0} \cup Seqs

(***************************************************************************)
(* Objects of the worker.  A response carries request_seq on the object;   *)
(* an event carries type "event", and a "requestCompleted" event carries   *)
(* request_seq inside its body.                                            *)
(***************************************************************************)
NoBody == [present |-> FALSE, request_seq |-> 0]
Body(s) == [present |-> TRUE, request_seq |-> s]

Response(s) ==
    [type |-> "response", event |-> "", request_seq |-> s, body |-> NoBody]
\* s = 0: the body has no request_seq
RequestCompleted(s) ==
    [type |-> "event", event |-> "requestCompleted", request_seq |-> 0, body |-> Body(s)]
\* a "requestCompleted" event that has no body at all
RequestCompletedNoBody ==
    [type |-> "event", event |-> "requestCompleted", request_seq |-> 0, body |-> NoBody]
\* an unsolicited event
Broadcast ==
    [type |-> "event", event |-> "telemetry", request_seq |-> 0, body |-> NoBody]

\* the objects a well-behaved worker sends
Objs ==
    {Response(s) : s \in Seqs} \cup {RequestCompleted(s) : s \in Seqs} \cup {Broadcast}

\* the value undefined where an object is expected: Map.get of a missing key
NoObj == [type |-> "undefined", event |-> "", request_seq |-> 0, body |-> NoBody]

\* requests of the driver: { seq, command }.  message reads the seq of an
\* "exit" request and never uses it, so one such request stands for all.
Requests ==
    {[seq |-> s, command |-> "quickinfo"] : s \in Seqs}
        \cup {[seq |-> 2, command |-> "exit"]}
\* the request exitOrKill sends: { "command": "exit" }, without a seq
ExitRequest == [seq |-> 0, command |-> "exit"]

(***************************************************************************)
(* Promises.  A promise settles once: the first resolve or reject wins and *)
(* every later one is ignored.  calls counts the invocations of its        *)
(* resolve and reject functions.                                           *)
(***************************************************************************)
NewPromise(none) == [state |-> "pending", value |-> none, calls |-> 0]

Settle(p, how, v) ==
    IF p.state = "pending"
    THEN [state |-> how, value |-> v, calls |-> p.calls + 1]
    ELSE [p EXCEPT !.calls = p.calls + 1]

Resolve(p, v) == Settle(p, "resolved", v)
Reject(p, v) == Settle(p, "rejected", v)

\* what a message() promise settles with: an object, undefined, or an Error
ObjectValue(obj) == [is |-> "object", obj |-> obj]
UndefinedValue == [is |-> "undefined", obj |-> NoObj]
ErrorValue(msg) == [is |-> msg, obj |-> NoObj]
ServerExited == ErrorValue("Server has exited")

VARIABLES
    useNodeIpc,      \* launchServer: "--useNodeIpc" among the arguments
    serverProc,      \* the ChildProcess handle: connected, killed, exitCode, signalCode
    closed,          \* the handle has emitted "close"
    waiters,         \* makeListeners: Map seq -> resolve function (the call it resolves)
    objects,         \* makeListeners: Map seq -> object received with no waiter
    eventListeners,  \* launchServer: listeners of "event", in registration order
    exitListeners,   \* launchServer: listeners of "exit"
    closeListeners,  \* launchServer: listeners of "close"
    notified,        \* listener invocations so far, in order
    calls,           \* the message() calls so far: request and returned promise
    written,         \* what has been handed to the worker (send / stdin.write)
    handled,         \* the objects passed to handleMessage so far, in order
    thrown,          \* the kinds of error that have escaped a handler of the harness
    exitCall,        \* the exitOrKill call: its promise, timer, timedOut, "close" listener
    kills,           \* the kill calls, by caller: the driver's, exitOrKill's timer's
    osEOL,           \* os.EOL of the platform the harness runs on
    stdout,          \* bytes the worker has written that have not arrived yet
    workerWrote,     \* the objects the worker framed into stdout, in order
    unconsumedChunks,     \* makeListeners: the bytes received and not consumed
    unconsumedByteLength, \* makeListeners: their number
    headerByteLength,     \* makeListeners: offset of the body in them, or -1
    currentByteLength     \* makeListeners: length of the frame in them, or -1

corrVars == <<waiters, objects>>
listenerVars == <<eventListeners, exitListeners, closeListeners>>
vars ==
    <<useNodeIpc, serverProc, closed, waiters, objects, eventListeners,
      exitListeners, closeListeners, notified, calls, written, handled, thrown,
      exitCall, kills, osEOL, stdout, workerWrote, unconsumedChunks,
      unconsumedByteLength, headerByteLength, currentByteLength>>
decoderVars ==
    <<unconsumedChunks, unconsumedByteLength, headerByteLength, currentByteLength>>
streamVars == <<osEOL, stdout, workerWrote, decoderVars>>
procVars == <<serverProc, closed>>
shutdownVars == <<exitCall, kills>>

(***************************************************************************)
(* The correlator: handleMessage and getResponse of makeListeners.         *)
(***************************************************************************)
\* a Map with no entries
\* waiters holds the number of the call whose promise the function resolves;
\* none is what Map.get gives for a missing key: 0 in waiters, NoObj in objects
EmptyMap(none) == [k \in Keys |-> none]
MapSet(map, k, v) == [map EXCEPT ![k] = v]
MapDelete(map, k, none) == [map EXCEPT ![k] = none]
WaiterKeys == {k \in Keys : waiters[k] # 0}
ObjectKeys == {k \in Keys : objects[k] # NoObj}

\* "if (w)": a resolve function is truthy, undefined is not
TruthyWaiter(w) == w # 0
\* "if (obj)": an object is truthy, undefined is not
TruthyObject(obj) == obj # NoObj

\* a slip: every event goes to the listeners
IsBroadcastAnyEvent(obj) == obj.type = "event"

\* line 136: the object goes to the event listeners
IsBroadcast(obj) == obj.type = "event" /\ obj.event # "requestCompleted"

\* a slip: request_seq is read off the object, also of an event
RequestSeqOfObject(obj) == obj.request_seq

\* lines 143-145 (evaluated only when obj.body can be read)
RequestSeq(obj) ==
    IF obj.type = "event" THEN obj.body.request_seq ELSE obj.request_seq

\* line 144 throws a TypeError: obj.body is undefined
BodyUnreadable(obj) == obj.type = "event" /\ ~obj.body.present

\* one invocation of a listener with its arguments
Invocation(kind, listener, obj, code, signal) ==
    [kind |-> kind, listener |-> listener, obj |-> obj, code |-> code, signal |-> signal]

\* a listener is the function the driver passed to on(): the number of its
\* registration, and whether it throws when it is called
Listener(id, throws) == [id |-> id, throws |-> throws]

\* a "for (const listener of listeners) listener(...)" loop ends at the first
\* listener that throws: the listeners it calls, and whether one of them threw
Throws(listeners) == \E i \in 1..Len(listeners) : listeners[i].throws
Called(listeners) ==
    IF Throws(listeners)
    THEN SubSeq(listeners, 1, CHOOSE i \in 1..Len(listeners) :
                                 /\ listeners[i].throws
                                 /\ \A j \in 1..(i - 1) : ~listeners[j].throws)
    ELSE listeners

\* a slip: the listeners are called last to first
NotifyEventReversed(log, listeners, obj) ==
    log \o [i \in 1..Len(listeners) |->
                Invocation("event", listeners[Len(listeners) + 1 - i], obj, "null", "null")]

\* lines 137-139: the listeners are called with the object, in order
NotifyEvent(log, listeners, obj) ==
    log \o [i \in 1..Len(Called(listeners)) |->
                Invocation("event", listeners[i], obj, "null", "null")]

\* "w(obj)": the resolve function of call i
ResolveCall(cs, i, obj) == [cs EXCEPT ![i].promise = Resolve(@, ObjectValue(obj))]

\* lines 148-151: the waiter leaves the map and is called
TakeWaiter(c, requestSeq, obj) ==
    [c EXCEPT !.waiters = MapDelete(c.waiters, requestSeq, 0),
              !.calls = ResolveCall(c.calls, c.waiters[requestSeq], obj)]

\* a slip: an object nobody waits for is dropped
BufferNothing(c, requestSeq, obj) == c

\* lines 152-154: no waiter, the object is kept
BufferObject(c, requestSeq, obj) ==
    [c EXCEPT !.objects = MapSet(c.objects, requestSeq, obj)]

\* an exception leaves the running handler; threw tells its caller so
Throw(c, error) == [c EXCEPT !.thrown = @ \cup {error}, !.threw = TRUE]

\* lines 135-155, on the state c of the correlator
HandleMessage(c, obj) ==
    LET c1 == [c EXCEPT !.handled = Append(c.handled, obj)]
    IN  IF IsBroadcast(obj)
        THEN LET c2 == [c1 EXCEPT !.notified =
                                      NotifyEvent(c.notified, c.listeners, obj)]
             IN  IF Throws(c.listeners) THEN Throw(c2, "ListenerError") ELSE c2
        ELSE IF BodyUnreadable(obj)
        THEN Throw(c1, "TypeError")
        ELSE LET requestSeq == RequestSeq(obj)
                 w == c.waiters[requestSeq]
             IN  IF TruthyWaiter(w)
                 THEN TakeWaiter(c1, requestSeq, obj)
                 ELSE BufferObject(c1, requestSeq, obj)

\* the state handleMessage works on, and its write-back
Corr ==
    [waiters |-> waiters, objects |-> objects, calls |-> calls, notified |-> notified,
     thrown |-> thrown, handled |-> handled, listeners |-> eventListeners,
     threw |-> FALSE]

SetCorr(c) ==
    /\ waiters' = c.waiters
    /\ objects' = c.objects
    /\ calls' = c.calls
    /\ notified' = c.notified
    /\ thrown' = c.thrown
    /\ handled' = c.handled

\* a slip: the object stays in the map
TakeObjectAndKeep(c, seq, i) ==
    [c EXCEPT !.calls = [c.calls EXCEPT ![i].promise = Resolve(@, ObjectValue(c.objects[seq]))]]

\* lines 157-166: getResponse(seq) for call i; the promise is call i's
TakeObject(c, seq, i) ==
    [c EXCEPT !.objects = MapDelete(c.objects, seq, NoObj),
              !.calls = ResolveCall(c.calls, i, c.objects[seq])]

RegisterWaiter(c, seq, i) ==
    [c EXCEPT !.waiters = MapSet(c.waiters, seq, i)]

\* a slip: the buffered object is not looked at
GetResponseAlwaysWaits(c, seq, i) == [c EXCEPT !.waiters = [c.waiters EXCEPT ![seq] = i]]


GetResponse(c, seq, i) ==
    LET obj == c.objects[seq]
    IN  IF TruthyObject(obj) THEN TakeObject(c, seq, i) ELSE RegisterWaiter(c, seq, i)

(***************************************************************************)
(* message(request), lines 171-193.                                        *)
(***************************************************************************)
\* a slip: the killed flag is not looked at
HasExitedButKilled(p) == ~p.connected \/ p.exitCode # "null" \/ p.signalCode # "null"

\* line 173
HasExited(p) ==
    ~p.connected \/ p.killed \/ p.exitCode # "null" \/ p.signalCode # "null"

\* a slip: the request is handed over twice
TransmitTwice(w, request) ==
    Append(Append(w, [ipc |-> useNodeIpc, request |-> request]),
           [ipc |-> useNodeIpc, request |-> request])

\* lines 178-182: serverProc.send(request), or JSON text and "\n" to stdin
Transmit(w, request) ==
    Append(w, [ipc |-> useNodeIpc, request |-> request])

NewCall(request) == [request |-> request, promise |-> NewPromise(UndefinedValue)]

Message(request) ==
    /\ LET i == Len(calls) + 1
           cs == Append(calls, NewCall(request))
       IN  IF HasExited(serverProc)
           THEN /\ calls' = [cs EXCEPT ![i].promise = Reject(@, ServerExited)]
                /\ UNCHANGED <<written, waiters, objects>>
           ELSE /\ written' = Transmit(written, request)
                /\ IF request.command = "exit"
                   THEN /\ calls' = [cs EXCEPT ![i].promise = Resolve(@, UndefinedValue)]
                        /\ UNCHANGED <<waiters, objects>>
                   ELSE LET c == GetResponse([Corr EXCEPT !.calls = cs], request.seq, i)
                        IN  /\ calls' = c.calls
                            /\ waiters' = c.waiters
                            /\ objects' = c.objects
    /\ UNCHANGED <<useNodeIpc, streamVars, procVars, listenerVars, notified, handled, thrown,
                   shutdownVars>>

(***************************************************************************)
(* The native channel: serverProc.on('message', handleMessage), line 98.   *)
(***************************************************************************)
OnMessage(obj) ==
    /\ useNodeIpc
    /\ serverProc.connected
    /\ SetCorr(HandleMessage(Corr, obj))
    /\ UNCHANGED <<useNodeIpc, streamVars, procVars, listenerVars, written, shutdownVars>>

(***************************************************************************)
(* on(event, listener), lines 61-76.                                       *)
(***************************************************************************)
Registered == Len(eventListeners) + Len(exitListeners) + Len(closeListeners)

On(event, listener) ==
    /\ CASE event = "event" ->
               /\ eventListeners' = Append(eventListeners, listener)
               /\ UNCHANGED <<exitListeners, closeListeners>>
        [] event = "exit" ->
               /\ exitListeners' = Append(exitListeners, listener)
               /\ UNCHANGED <<eventListeners, closeListeners>>
        [] event = "close" ->
               /\ closeListeners' = Append(closeListeners, listener)
               /\ UNCHANGED <<eventListeners, exitListeners>>
    /\ UNCHANGED <<useNodeIpc, streamVars, procVars, corrVars, notified, calls, written, handled,
                   thrown, shutdownVars>>

(***************************************************************************)
(* kill(serverProc), lines 217-232.                                        *)
(***************************************************************************)
\* line 224
AlreadyExited(p) == p.exitCode # "null" \/ p.signalCode # "null"

\* a kill call: its promise, whether its once("close") listener is still
\* registered, and what the handle showed and serverProc.kill returned
NoKill ==
    [called |-> FALSE, promise |-> NewPromise(""), listening |-> FALSE,
     exitedAtCall |-> FALSE, signalSent |-> FALSE]

\* a slip: the promise waits for "close" whatever the handle shows
ResolveOnlyOnClose(promise, p) == promise

\* lines 223-226: a process that has exited emits no "close" any more
ResolveIfExited(promise, p) ==
    IF AlreadyExited(p) THEN Resolve(promise, "") ELSE promise

\* lines 228-230: signalSent is what serverProc.kill("SIGKILL") returned
RejectIfNotSent(promise, signalSent) ==
    IF ~signalSent THEN Reject(promise, "Failed to send kill signal to server")
    ELSE promise

\* the executor of the promise, on the handle p
Kill(p, signalSent) ==
    [called |-> TRUE,
     promise |-> RejectIfNotSent(ResolveIfExited(NewPromise(""), p), signalSent),
     listening |-> ~closed,
     exitedAtCall |-> AlreadyExited(p),
     signalSent |-> signalSent]

\* ChildProcess.kill: the signal reaches only a process that has not been
\* reaped, and even then the system call may fail; killed is set when it is sent
CanSignal(p, signalSent) == signalSent => ~AlreadyExited(p)
AfterSignal(p, signalSent) == [p EXCEPT !.killed = @ \/ signalSent]

\* lines 219-221: the "close" listener of a kill call
KillOnClose(k) ==
    IF k.listening
    THEN [k EXCEPT !.promise = Resolve(@, ""), !.listening = FALSE]
    ELSE k

\* server.kill() called by the driver
KillCall(signalSent) ==
    /\ ~kills["driver"].called
    /\ CanSignal(serverProc, signalSent)
    /\ kills' = [kills EXCEPT !["driver"] = Kill(serverProc, signalSent)]
    /\ serverProc' = AfterSignal(serverProc, signalSent)
    /\ UNCHANGED <<useNodeIpc, streamVars, closed, corrVars, listenerVars, notified, calls, written,
                   handled, thrown, exitCall>>

(***************************************************************************)
(* exitOrKill(serverProc, useNodeIpc, timeoutMs), lines 195-215.           *)
(***************************************************************************)
\* the call: its promise, timedOut, the timer, whether its once("close")
\* listener is still registered, whether the exit command was handed to the
\* worker, and how many times it has called kill
NoExitCall ==
    [called |-> FALSE, promise |-> NewPromise(""), timedOut |-> FALSE,
     timeout |-> "unset", listening |-> FALSE, sent |-> FALSE, killCalls |-> 0]

\* line 213: message(exit) and its .catch(err => reject(err))
SendExit(e, p) ==
    IF HasExited(p)
    THEN [e EXCEPT !.promise = Reject(@, "Server has exited")]
    ELSE [e EXCEPT !.sent = TRUE]

ExitOrKill ==
    /\ ~exitCall.called
    /\ exitCall' =
           SendExit([NoExitCall EXCEPT !.called = TRUE, !.listening = ~closed,
                                       !.timeout = "armed"], serverProc)
    /\ written' = IF HasExited(serverProc) THEN written
                  ELSE Transmit(written, ExitRequest)
    /\ UNCHANGED <<useNodeIpc, streamVars, procVars, corrVars, listenerVars, notified, calls, handled,
                   thrown, kills>>

\* line 209, after "await kill(serverProc)": runs once that promise is resolved
AfterKill(e, k) ==
    IF k.promise.state = "resolved" THEN [e EXCEPT !.promise = Resolve(@, "false")]
    ELSE e

\* a rejected kill ends the timer's async callback with a rejection nobody handles
Unhandled(errors, k) ==
    IF k.promise.state = "rejected" THEN errors \cup {"UnhandledRejection"} ELSE errors

\* lines 206-210: the timer fires
Timeout(signalSent) ==
    /\ exitCall.timeout = "armed"
    /\ CanSignal(serverProc, signalSent)
    /\ LET k == Kill(serverProc, signalSent)
       IN  /\ kills' = [kills EXCEPT !["timer"] = k]
           /\ exitCall' = AfterKill([exitCall EXCEPT !.timedOut = TRUE,
                                                     !.timeout = "fired",
                                                     !.killCalls = @ + 1], k)
           /\ thrown' = Unhandled(thrown, k)
    /\ serverProc' = AfterSignal(serverProc, signalSent)
    /\ UNCHANGED <<useNodeIpc, streamVars, closed, corrVars, listenerVars, notified, calls, written,
                   handled>>

\* a slip: timedOut is not looked at
ExitOnCloseUnguarded(e) ==
    IF ~e.listening THEN e
    ELSE [e EXCEPT !.listening = FALSE, !.timeout = "cleared",
                   !.promise = Resolve(@, "true")]

\* lines 199-204: the "close" listener of exitOrKill
ExitOnClose(e) ==
    IF ~e.listening THEN e
    ELSE IF ~e.timedOut
    THEN [e EXCEPT !.listening = FALSE, !.timeout = "cleared",
                   !.promise = Resolve(@, "true")]
    ELSE [e EXCEPT !.listening = FALSE]

(***************************************************************************)
(* The worker process as the handle shows it.                              *)
(***************************************************************************)
\* the channel to the worker closes
Disconnect ==
    /\ serverProc.connected
    /\ serverProc' = [serverProc EXCEPT !.connected = FALSE]
    /\ UNCHANGED <<useNodeIpc, streamVars, closed, corrVars, listenerVars, notified, calls, written,
                   handled, thrown, shutdownVars>>

\* an exception of a listener leaves the handler of the process event
Uncaught(errors, listeners) ==
    IF Throws(listeners) THEN errors \cup {"ListenerError"} ELSE errors

\* a slip: the exit of the worker fails the sends that wait
ProcExitRejecting(code, signal) ==
    /\ ~AlreadyExited(serverProc)
    /\ (code = "null") # (signal = "null")
    /\ serverProc' = [serverProc EXCEPT !.exitCode = code, !.signalCode = signal]
    /\ calls' = [i \in DOMAIN calls |->
                     [calls[i] EXCEPT !.promise = Reject(@, ServerExited)]]
    /\ waiters' = EmptyMap(0)
    /\ UNCHANGED <<useNodeIpc, streamVars, closed, objects, listenerVars, notified, written,
                   handled, thrown, shutdownVars>>

\* lines 49-53: the worker exits, with a code or by a signal
NotifyExit(log, listeners, code) ==
    log \o [i \in 1..Len(Called(listeners)) |->
                Invocation("exit", listeners[i], NoObj, code, "null")]

ProcExit(code, signal) ==
    /\ ~AlreadyExited(serverProc)
    /\ (code = "null") # (signal = "null")
    /\ serverProc' = [serverProc EXCEPT !.exitCode = code, !.signalCode = signal]
    /\ notified' = NotifyExit(notified, exitListeners, code)
    /\ thrown' = Uncaught(thrown, exitListeners)
    /\ UNCHANGED <<useNodeIpc, streamVars, closed, corrVars, listenerVars, calls, written,
                   handled, shutdownVars>>

\* lines 55-59: the worker has exited and its streams have closed.  "close"
\* calls its listeners in the order they were added: the one of launchServer
\* first, then those of kill and exitOrKill; an exception of the first leaves
\* the emit, and the later ones are not called
NotifyClose(log, listeners, code, signal) ==
    log \o [i \in 1..Len(Called(listeners)) |->
                Invocation("close", listeners[i], NoObj, code, signal)]

ProcClose ==
    /\ AlreadyExited(serverProc)
    /\ ~closed
    /\ closed' = TRUE
    /\ notified' = NotifyClose(notified, closeListeners, serverProc.exitCode,
                               serverProc.signalCode)
    /\ thrown' = Uncaught(thrown, closeListeners)
    /\ IF Throws(closeListeners)
       THEN UNCHANGED shutdownVars
       ELSE LET kt == KillOnClose(kills["timer"])
            IN  /\ kills' = [kills EXCEPT !["driver"] = KillOnClose(@), !["timer"] = kt]
                /\ exitCall' =
                       IF kills["timer"].listening
                              /\ kills["timer"].promise.state = "pending"
                       THEN AfterKill(ExitOnClose(exitCall), kt)
                       ELSE ExitOnClose(exitCall)
    /\ UNCHANGED <<useNodeIpc, streamVars, serverProc, corrVars, listenerVars, calls, written,
                   handled>>

(***************************************************************************)
(* The byte stream: the stdout 'data' handler of makeListeners, lines      *)
(* 101-132.  A byte is a character: the frames of the model are ASCII, so  *)
(* an index into the decoded text is an index into the bytes.              *)
(* unconsumedChunks holds Buffer.concat of the chunk list.                 *)
(***************************************************************************)
LF == <<"\n">>
CRLF == <<"\r", "\n">>

Digits == <<"0", "1", "2", "3", "4", "5", "6", "7", "8", "9">>
IsDigit(ch) == \E d \in 1..10 : Digits[d] = ch
DigitValue(ch) == (CHOOSE d \in 1..10 : Digits[d] = ch) - 1

\* the text of the regular expression /Content-Length: (\d+)/ before its digits
ContentLength ==
    <<"C", "o", "n", "t", "e", "n", "t", "-", "L", "e", "n", "g", "t", "h", ":", " ">>

\* the decimal digits of n, as JSON.stringify and the worker write them
RECURSIVE Decimal(_)
Decimal(n) ==
    IF n < 10 THEN <<Digits[n + 1]>>
    ELSE Decimal(n \div 10) \o <<Digits[(n % 10) + 1]>>

\* "+headerMatch[1]": the number a run of digits denotes
RECURSIVE NumberOf(_)
NumberOf(digits) ==
    IF digits = <<>> THEN 0
    ELSE 10 * NumberOf(SubSeq(digits, 1, Len(digits) - 1)) + DigitValue(digits[Len(digits)])

\* the JSON text of an object of the worker
RequestSeqText ==
    <<"\"", "r", "e", "q", "u", "e", "s", "t", "_", "s", "e", "q", "\"", ":">>
TypeEventText ==
    <<"\"", "t", "y", "p", "e", "\"", ":", "\"", "e", "v", "e", "n", "t", "\"", ",">>
TelemetryText ==
    <<"\"", "e", "v", "e", "n", "t", "\"", ":", "\"", "t", "e", "l", "e", "m", "e",
      "t", "r", "y", "\"">>
CompletedText ==
    <<"\"", "e", "v", "e", "n", "t", "\"", ":", "\"", "r", "e", "q", "u", "e", "s",
      "t", "C", "o", "m", "p", "l", "e", "t", "e", "d", "\"", ",", "\"", "b", "o", "d",
      "y", "\"", ":">>

Stringify(obj) ==
    IF obj.type = "response"
    THEN <<"{">> \o RequestSeqText \o Decimal(obj.request_seq) \o <<"}">>
    ELSE IF obj.event = "requestCompleted"
    THEN <<"{">> \o TypeEventText \o CompletedText \o <<"{">> \o RequestSeqText
             \o Decimal(obj.body.request_seq) \o <<"}", "}">>
    ELSE <<"{">> \o TypeEventText \o TelemetryText \o <<"}">>

\* the objects the worker writes to the stream in the model
StreamObjs == {Response(1), Broadcast}

\* JSON.parse skips white space around the value
IsSpace(ch) == ch \in {" ", "\n", "\r", "\t"}
RECURSIVE TrimEnd(_)
TrimEnd(text) ==
    IF text # <<>> /\ IsSpace(text[Len(text)])
    THEN TrimEnd(SubSeq(text, 1, Len(text) - 1)) ELSE text
RECURSIVE TrimStart(_)
TrimStart(text) ==
    IF text # <<>> /\ IsSpace(text[1]) THEN TrimStart(Tail(text)) ELSE text

\* JSON.parse(jsonText): the object the text denotes; a text that denotes
\* no object of the worker is not JSON here (every slice the handler can cut
\* out of a stream of frames is a whole body or starts with the header)
Parsable(jsonText) ==
    \E obj \in StreamObjs : TrimStart(TrimEnd(jsonText)) = Stringify(obj)
JSONParse(jsonText) ==
    CHOOSE obj \in StreamObjs : TrimStart(TrimEnd(jsonText)) = Stringify(obj)

\* a body that is not JSON, as a worker gone wrong may write it
Malformed == [type |-> "malformed", event |-> "", request_seq |-> 0, body |-> NoBody]
MalformedText == <<"{", "]">>
\* the body the worker writes for obj
BodyText(obj) == IF obj = Malformed THEN MalformedText ELSE Stringify(obj)

\* the frame tsserver writes for an object: Content-Length counts the body
\* and one byte of the line end that follows it, whatever os.EOL is
Frame(obj, eol) ==
    ContentLength \o Decimal(Len(BodyText(obj)) + 1) \o CRLF \o CRLF
        \o BodyText(obj) \o eol

RECURSIVE Frames(_, _)
Frames(objs, eol) ==
    IF objs = <<>> THEN <<>> ELSE Frame(Head(objs), eol) \o Frames(Tail(objs), eol)

\* text.indexOf(ch, from): 0-based, -1 when there is none
RECURSIVE IndexOf(_, _, _)
IndexOf(text, ch, from) ==
    IF from >= Len(text) THEN -1
    ELSE IF text[from + 1] = ch THEN from
    ELSE IndexOf(text, ch, from + 1)

\* the longest run of digits of text that starts at the 0-based index from
RECURSIVE DigitRun(_, _)
DigitRun(text, from) ==
    IF from < Len(text) /\ IsDigit(text[from + 1])
    THEN <<text[from + 1]>> \o DigitRun(text, from + 1)
    ELSE <<>>

\* the regular expression matches at the 0-based index i of text
MatchesAt(text, i) ==
    /\ i + Len(ContentLength) < Len(text)
    /\ SubSeq(text, i + 1, i + Len(ContentLength)) = ContentLength
    /\ IsDigit(text[i + Len(ContentLength) + 1])

\* text.match(/Content-Length: (\d+)/): the first match at or after from
RECURSIVE HeaderMatch(_, _)
HeaderMatch(text, from) ==
    IF from + Len(ContentLength) >= Len(text)
    THEN [found |-> FALSE, index |-> 0, length |-> 0, digits |-> <<>>]
    ELSE IF MatchesAt(text, from)
    THEN LET digits == DigitRun(text, from + Len(ContentLength))
         IN  [found |-> TRUE, index |-> from,
              length |-> Len(ContentLength) + Len(digits), digits |-> digits]
    ELSE HeaderMatch(text, from + 1)

\* buffer.toString("utf8", start, end): a start below 0 is 0, and an end at
\* or before the start gives the empty text
Slice(buffer, start, end) ==
    LET from == IF start < 0 THEN 0 ELSE start
        to == IF end > Len(buffer) THEN Len(buffer) ELSE end
    IN  IF to <= from THEN <<>> ELSE SubSeq(buffer, from + 1, to)

\* combined.subarray(start)
Subarray(buffer, start) ==
    LET from == IF start >= 0 THEN start
                ELSE IF Len(buffer) + start < 0 THEN 0
                ELSE Len(buffer) + start
    IN  IF from >= Len(buffer) THEN <<>> ELSE SubSeq(buffer, from + 1, Len(buffer))

\* a slip: os.EOL is not looked at, the frame ends where the header says
FrameLengthAnnounced(header, bodyByteLength, eol) == header + bodyByteLength

\* line 117
FrameLength(header, bodyByteLength, eol) == header + bodyByteLength + (Len(eol) - 1)

\* lines 110-118: locate the header when none is pending; found is FALSE at the break
LocateHeader(d, eol) ==
    IF d.headerByteLength >= 0 THEN [d EXCEPT !.found = TRUE]
    ELSE LET headerMatch == HeaderMatch(d.unconsumedChunks, 0)
         IN  IF ~headerMatch.found THEN [d EXCEPT !.found = FALSE]
             ELSE LET header == IndexOf(d.unconsumedChunks, "{",
                                        headerMatch.index + headerMatch.length)
                  IN  [d EXCEPT !.found = TRUE,
                                !.headerByteLength = header,
                                !.currentByteLength =
                                    FrameLength(header, NumberOf(headerMatch.digits), eol)]

\* lines 125-128: the frame leaves the buffer and the header state is reset
Consume(d) ==
    [d EXCEPT !.unconsumedByteLength = @ - d.currentByteLength,
              !.unconsumedChunks =
                  IF d.unconsumedByteLength - d.currentByteLength > 0
                  THEN Subarray(d.unconsumedChunks, d.currentByteLength) ELSE <<>>,
              !.headerByteLength = -1,
              !.currentByteLength = -1]

\* a slip: the handler returns after the first frame of a chunk
DataLoopOnce(d, c, eol) ==
    LET d1 == LocateHeader(d, eol)
    IN  IF ~d1.found THEN [d |-> d1, c |-> c]
        ELSE IF d1.unconsumedByteLength < d1.currentByteLength THEN [d |-> d1, c |-> c]
        ELSE LET jsonText == Slice(d1.unconsumedChunks, d1.headerByteLength,
                                   d1.currentByteLength)
             IN  IF ~Parsable(jsonText)
                 THEN [d |-> d1, c |-> Throw(c, "SyntaxError")]
                 ELSE [d |-> Consume(d1), c |-> HandleMessage(c, JSONParse(jsonText))]

\* a slip: the object is dispatched before its bytes are dropped
RECURSIVE DataLoopDispatchFirst(_, _, _)
DataLoopDispatchFirst(d, c, eol) ==
    LET d1 == LocateHeader(d, eol)
    IN  IF ~d1.found THEN [d |-> d1, c |-> c]
        ELSE IF d1.unconsumedByteLength < d1.currentByteLength THEN [d |-> d1, c |-> c]
        ELSE LET jsonText == Slice(d1.unconsumedChunks, d1.headerByteLength,
                                   d1.currentByteLength)
             IN  IF ~Parsable(jsonText)
                 THEN [d |-> d1, c |-> Throw(c, "SyntaxError")]
                 ELSE LET c2 == HandleMessage(c, JSONParse(jsonText))
                      IN  IF c2.threw
                          THEN [d |-> d1, c |-> c2]
                          ELSE DataLoopDispatchFirst(Consume(d1), c2, eol)

\* a slip: a body that does not parse is dropped and the loop goes on
RECURSIVE DataLoopSkipping(_, _, _)
DataLoopSkipping(d, c, eol) ==
    LET d1 == LocateHeader(d, eol)
    IN  IF ~d1.found THEN [d |-> d1, c |-> c]
        ELSE IF d1.unconsumedByteLength < d1.currentByteLength THEN [d |-> d1, c |-> c]
        ELSE LET jsonText == Slice(d1.unconsumedChunks, d1.headerByteLength,
                                   d1.currentByteLength)
             IN  IF ~Parsable(jsonText)
                 THEN DataLoopSkipping(Consume(d1), c, eol)
                 ELSE LET c2 == HandleMessage(c, JSONParse(jsonText))
                      IN  IF c2.threw
                          THEN [d |-> Consume(d1), c |-> c2]
                          ELSE DataLoopSkipping(Consume(d1), c2, eol)

\* lines 109-131: the loop, on the decoder state d and the correlator state c;
\* an exception of JSON.parse or of handleMessage ends it where it is
RECURSIVE DataLoop(_, _, _)
DataLoop(d, c, eol) ==
    LET d1 == LocateHeader(d, eol)
    IN  IF ~d1.found THEN [d |-> d1, c |-> c]
        ELSE IF d1.unconsumedByteLength < d1.currentByteLength THEN [d |-> d1, c |-> c]
        ELSE LET jsonText == Slice(d1.unconsumedChunks, d1.headerByteLength,
                                   d1.currentByteLength)
             IN  IF ~Parsable(jsonText)
                 THEN [d |-> d1, c |-> Throw(c, "SyntaxError")]
                 ELSE LET c2 == HandleMessage(c, JSONParse(jsonText))
                      IN  IF c2.threw
                          THEN [d |-> Consume(d1), c |-> c2]
                          ELSE DataLoop(Consume(d1), c2, eol)

Decoder ==
    [unconsumedChunks |-> unconsumedChunks, unconsumedByteLength |-> unconsumedByteLength,
     headerByteLength |-> headerByteLength, currentByteLength |-> currentByteLength,
     found |-> FALSE]

\* lines 105-108, then the loop: a chunk of stdout arrives
OnData(buffer) ==
    /\ ~useNodeIpc
    /\ \E r \in {DataLoop([Decoder EXCEPT !.unconsumedChunks = @ \o buffer,
                                           !.unconsumedByteLength = @ + Len(buffer)],
                           Corr, osEOL)} :
           /\ unconsumedChunks' = r.d.unconsumedChunks
           /\ unconsumedByteLength' = r.d.unconsumedByteLength
           /\ headerByteLength' = r.d.headerByteLength
           /\ currentByteLength' = r.d.currentByteLength
           /\ SetCorr(r.c)
    /\ UNCHANGED <<useNodeIpc, osEOL, workerWrote, procVars, listenerVars, written,
                   shutdownVars>>

\* the next n bytes the worker wrote arrive as one chunk
Data(n) ==
    /\ n \in 1..Len(stdout)
    /\ stdout' = Subarray(stdout, n)
    /\ OnData(SubSeq(stdout, 1, n))

(***************************************************************************)
(* The harness over the native channel.                                    *)
(***************************************************************************)
InitHarness(ipc) ==
    /\ useNodeIpc = ipc
    /\ serverProc = [connected |-> TRUE, killed |-> FALSE, exitCode |-> "null",
                     signalCode |-> "null"]
    /\ closed = FALSE
    /\ waiters = EmptyMap(0)
    /\ objects = EmptyMap(NoObj)
    /\ eventListeners = <<>>
    /\ exitListeners = <<>>
    /\ closeListeners = <<>>
    /\ notified = <<>>
    /\ calls = <<>>
    /\ written = <<>>
    /\ handled = <<>>
    /\ thrown = {}
    /\ exitCall = NoExitCall
    /\ kills = [who \in {"driver", "timer"} |-> NoKill]
    /\ unconsumedChunks = <<>>
    /\ unconsumedByteLength = 0
    /\ headerByteLength = -1
    /\ currentByteLength = -1

\* over the native channel nothing is written to stdout and os.EOL is not read
Init ==
    /\ InitHarness(TRUE)
    /\ osEOL = LF
    /\ stdout = <<>>
    /\ workerWrote = <<>>

\* what the driver and the worker do within the bounds
Send == \E request \in Requests : Len(calls) < MaxCalls /\ Message(request)
Receive == \E obj \in Objs : Len(handled) < MaxDeliveries /\ OnMessage(obj)
\* the driver registers a listener that returns
Listen(events) ==
    \E event \in events :
        Registered < MaxListeners /\ On(event, Listener(Registered + 1, FALSE))
WorkerExit ==
    \E code \in {"null", "0"}, signal \in {"null", "SIGKILL"} : ProcExit(code, signal)

\* a driver that sends requests and may kill the worker, and a worker that
\* answers, disconnects and exits
Next ==
    \/ Send
    \/ Receive
    \/ \E signalSent \in BOOLEAN : KillCall(signalSent)
    \/ Disconnect
    \/ WorkerExit

Spec == Init /\ [][Next]_vars

\* a driver that sends requests and listens to the events of a live worker
NextEvents ==
    \/ Send
    \/ Receive
    \/ Listen({"event"})

SpecEvents == Init /\ [][NextEvents]_vars

\* a driver that listens to everything a worker reports: its events, its
\* exit and the closing of its streams
NextListeners ==
    \/ Listen({"event", "exit", "close"})
    \/ Receive
    \/ WorkerExit
    \/ ProcClose

SpecListeners == Init /\ [][NextListeners]_vars

\* a driver that shuts the worker down with exitOrKill and kill
NextShutdown ==
    \/ ExitOrKill
    \/ \E signalSent \in BOOLEAN : Timeout(signalSent)
    \/ \E signalSent \in BOOLEAN : KillCall(signalSent)
    \/ Disconnect
    \/ WorkerExit
    \/ ProcClose

SpecShutdown == Init /\ [][NextShutdown]_vars

\* a worker that also sends "requestCompleted" events whose body has no
\* request_seq, or that have no body
OddObjs == Objs \cup {RequestCompleted(0), RequestCompletedNoBody}
ReceiveOdd == \E obj \in OddObjs : Len(handled) < MaxDeliveries /\ OnMessage(obj)

NextOddEvents ==
    \/ Send
    \/ ReceiveOdd
    \/ Listen({"event"})

SpecOddEvents == Init /\ [][NextOddEvents]_vars

\* a driver that sends its requests and then shuts the worker down, and a
\* worker that answers some of them
SendBeforeShutdown ==
    /\ Len(calls) < MaxCalls
    /\ ~exitCall.called /\ ~kills["driver"].called
    /\ Message([seq |-> 1, command |-> "quickinfo"])
Answer == Len(handled) < MaxDeliveries /\ OnMessage(Response(1))

NextKilled ==
    \/ SendBeforeShutdown
    \/ Answer
    \/ ExitOrKill
    \/ \E signalSent \in BOOLEAN : Timeout(signalSent)
    \/ \E signalSent \in BOOLEAN : KillCall(signalSent)
    \/ Disconnect
    \/ WorkerExit
    \/ ProcClose

SpecKilled == Init /\ [][NextKilled]_vars

\* the harness over the byte stream: the worker has written some frames, and
\* they arrive cut into chunks at any byte
WorkerWrites ==
    UNION {[1..n -> StreamObjs] : n \in 1..MaxFrames}

InitStream ==
    /\ InitHarness(FALSE)
    /\ osEOL \in {LF, CRLF}
    /\ \E objs \in WorkerWrites : workerWrote = objs /\ stdout = Frames(objs, osEOL)

NextStream == \E n \in 1..Len(stdout) : Data(n)

SpecStream == InitStream /\ [][NextStream]_vars

\* a worker that writes one frame whose body is not JSON, among good ones
MalformedWrites ==
    {objs \in UNION {[1..n -> StreamObjs \cup {Malformed}] : n \in 1..MaxFrames} :
         Cardinality({k \in DOMAIN objs : objs[k] = Malformed}) = 1}

InitMalformed ==
    /\ InitHarness(FALSE)
    /\ osEOL \in {LF, CRLF}
    /\ \E objs \in MalformedWrites : workerWrote = objs /\ stdout = Frames(objs, osEOL)

SpecMalformed == InitMalformed /\ [][NextStream]_vars

\* the same, with a driver that registers one listener of "event" when it
\* has launched the worker; the listener may be one that throws
ListenAtLaunch ==
    /\ Registered = 0
    /\ handled = <<>> /\ unconsumedByteLength = 0
    /\ \E throws \in BOOLEAN : On("event", Listener(1, throws))

NextStreamEvents ==
    \/ ListenAtLaunch
    \/ NextStream

SpecStreamEvents == InitStream /\ [][NextStreamEvents]_vars

(***************************************************************************)
(* The claims.  What a claim says of an object or of the handle is stated  *)
(* here in the claim's own terms, apart from the definitions of the model. *)
(***************************************************************************)
\* the sequence number an object of the worker carries
Carried(obj) ==
    IF obj.type = "event" /\ obj.event = "requestCompleted" THEN obj.body.request_seq
    ELSE obj.request_seq
\* the object is a reply: a response, or a "requestCompleted" event
IsReply(obj) == obj.type # "event" \/ obj.event = "requestCompleted"
\* the deliveries to handleMessage of a reply that carries s
Replies(s) == {k \in DOMAIN handled : IsReply(handled[k]) /\ Carried(handled[k]) = s}

\* call i is a send of a non-exit request that message accepted
Awaits(i) ==
    /\ calls[i].request.command # "exit"
    /\ ~(calls[i].promise.state = "rejected")
AwaitsOf(s) == {i \in DOMAIN calls : Awaits(i) /\ calls[i].request.seq = s}
ResolvedWith(i, obj) ==
    /\ calls[i].promise.state = "resolved"
    /\ calls[i].promise.value = ObjectValue(obj)

DistinctSeqs == \A s \in Seqs : Cardinality(AwaitsOf(s)) <= 1

\* C1: when the accepted non-exit requests have pairwise distinct seq, a
\* send's future is resolved only with a delivered reply that carries the
\* request's seq, and it is resolved once such a reply has been delivered,
\* whatever the order in which the replies arrived.
C1_ResolvedByOwnReply ==
    DistinctSeqs =>
        \A i \in DOMAIN calls :
            Awaits(i) =>
                LET s == calls[i].request.seq
                    p == calls[i].promise
                IN  /\ p.state = "resolved" =>
                           /\ p.value.is = "object"
                           /\ IsReply(p.value.obj)
                           /\ Carried(p.value.obj) = s
                           /\ \E k \in Replies(s) : handled[k] = p.value.obj
                    /\ Replies(s) # {} => p.state = "resolved"

\* two sends whose replies arrived in the opposite order, both resolved
C1_Witness ==
    /\ Len(calls) = 2 /\ Len(handled) = 2
    /\ calls[1].request.seq = 1 /\ calls[2].request.seq = 2
    /\ handled = <<Response(2), RequestCompleted(1)>>
    /\ ResolvedWith(1, RequestCompleted(1))
    /\ ResolvedWith(2, Response(2))

\* C2: once exitOrKill has sent the exit command, resolve and reject of its
\* promise are called at most once; true means that "close" came before the
\* timer, which is then cancelled, and that this call never called kill; once
\* the timer has fired the call has called kill exactly once, the promise is
\* never true, also after a later "close", and it is false once that kill is
\* done; false happens in no other way.
C2_ExclusiveOutcomes ==
    LET e == exitCall
        k == kills["timer"]
    IN  (e.called /\ e.sent) =>
            /\ e.promise.calls <= 1
            /\ (closed /\ ~e.timedOut) =>
                   e.promise.state = "resolved" /\ e.promise.value = "true"
            /\ e.promise.value = "true" =>
                   closed /\ ~e.timedOut /\ e.timeout = "cleared" /\ e.killCalls = 0
            /\ e.timedOut =>
                   /\ e.killCalls = 1 /\ k.called
                   /\ e.promise.value # "true"
                   /\ k.promise.state = "resolved" =>
                          e.promise.state = "resolved" /\ e.promise.value = "false"
            /\ e.promise.value = "false" =>
                   e.timedOut /\ e.killCalls = 1 /\ k.promise.state = "resolved"

\* the timer fired first, the signal was sent, "close" came later: false
C2_Witness ==
    /\ exitCall.sent /\ exitCall.timedOut /\ closed
    /\ kills["timer"].signalSent /\ ~kills["timer"].exitedAtCall
    /\ exitCall.promise.state = "resolved" /\ exitCall.promise.value = "false"
    /\ exitCall.promise.calls = 1

\* the frames whose bytes have all arrived
Arrived == Len(Frames(workerWrote, osEOL)) - Len(stdout)
RECURSIVE CompleteFrames(_, _)
CompleteFrames(objs, n) ==
    IF objs = <<>> \/ Len(Frame(Head(objs), osEOL)) > n THEN <<>>
    ELSE <<Head(objs)>> \o CompleteFrames(Tail(objs), n - Len(Frame(Head(objs), osEOL)))

\* C3: however the bytes of a sequence of complete frames are cut into
\* chunks, the data handler fails on none of them and has passed to
\* handleMessage exactly the objects of the frames received so far, in order.
C3_EverySplitDecodes ==
    /\ thrown = {}
    /\ handled = CompleteFrames(workerWrote, Arrived)

\* the step passes one more object to handleMessage
Handles(obj) == handled' = Append(handled, obj)

\* C4: an event other than "requestCompleted" goes to the event listeners
\* and leaves the sends and both maps as they are; a "requestCompleted" event
\* with body.request_seq = s resolves the send waiting for s, or is buffered
\* under s, and reaches no listener.
C4_EventOrReply ==
    [][\A obj \in Objs :
           (Handles(obj) /\ obj.type = "event") =>
               IF obj.event # "requestCompleted"
               THEN /\ notified' =
                           notified \o [n \in 1..Len(eventListeners) |->
                               Invocation("event", eventListeners[n], obj, "null", "null")]
                    /\ UNCHANGED <<waiters, objects, calls>>
               ELSE LET s == obj.body.request_seq
                        i == waiters[s]
                    IN  /\ notified' = notified
                        /\ IF i # 0
                           THEN /\ calls[i].promise.state = "pending"
                                /\ calls' = [calls EXCEPT ![i].promise =
                                       [state |-> "resolved", value |-> ObjectValue(obj),
                                        calls |-> 1]]
                                /\ waiters' = [waiters EXCEPT ![s] = 0]
                                /\ objects' = objects
                           ELSE /\ objects' = [objects EXCEPT ![s] = obj]
                                /\ UNCHANGED <<waiters, calls>>]_vars

\* a listener saw the broadcast, one send was resolved by a "requestCompleted"
\* event and the other send is still pending
C4_Witness ==
    /\ Len(notified) = 1 /\ notified[1].obj = Broadcast
    /\ Len(calls) = 2
    /\ ResolvedWith(1, RequestCompleted(calls[1].request.seq))
    /\ calls[2].promise.state = "pending"
    /\ handled = <<Broadcast, RequestCompleted(calls[1].request.seq)>>

\* the handle is disconnected, killed, or carries an exit or a signal code
Exited ==
    \/ ~serverProc.connected
    \/ serverProc.killed
    \/ serverProc.exitCode # "null"
    \/ serverProc.signalCode # "null"

\* C5: a send on a handle that is disconnected, killed or carries an exit or
\* signal code fails with "Server has exited"; nothing is written, no waiter
\* is registered, the buffered objects stay, and every earlier send is as it
\* was, its waiter still registered.
C5_ExitedSendFailsAlone ==
    [][(Len(calls') = Len(calls) + 1 /\ Exited) =>
           /\ calls'[Len(calls')].promise =
                  [state |-> "rejected", value |-> ErrorValue("Server has exited"),
                   calls |-> 1]
           /\ \A i \in DOMAIN calls : calls'[i] = calls[i]
           /\ UNCHANGED <<written, waiters, objects>>]_vars

\* a send failed on a killed worker while an earlier send is still waiting
C5_Witness ==
    /\ Len(calls) = 2
    /\ serverProc.killed
    /\ calls[1].promise.state = "pending" /\ waiters[calls[1].request.seq] = 1
    /\ calls[2].promise = [state |-> "rejected",
                           value |-> ErrorValue("Server has exited"), calls |-> 1]
    /\ Len(written) = 1

\* C6: the resolve function of an awaitResponse is called at most once, and
\* for every seq no more awaits have been resolved than replies carrying it
\* were delivered: an await made after an earlier one was resolved is not
\* resolved again from what the earlier one consumed.
C6_ResolvedOncePerReply ==
    /\ \A i \in DOMAIN calls : calls[i].promise.calls <= 1
    /\ \A s \in Seqs :
           Cardinality({i \in AwaitsOf(s) : calls[i].promise.state = "resolved"})
               <= Cardinality(Replies(s))

\* a second await of the same seq, made after the first was resolved from
\* the buffer, waits
C6_Witness ==
    /\ Len(calls) = 2 /\ Len(handled) = 1
    /\ calls[1].request = calls[2].request
    /\ ResolvedWith(1, handled[1])
    /\ calls[2].promise.state = "pending"
    /\ waiters[calls[2].request.seq] = 2
    /\ objects[calls[2].request.seq] = NoObj

\* C7: with one await of seq and one reply carrying it, in either order, the
\* await is resolved with that reply and neither map keeps an entry for seq;
\* a reply that came first is buffered with no waiter registered, and an
\* await that came first waits.
C7_RaceIndependent ==
    \A s \in Seqs :
        LET awaits == AwaitsOf(s)
            replies == Replies(s)
        IN  /\ (Cardinality(awaits) = 1 /\ Cardinality(replies) = 1) =>
                   \A i \in awaits, k \in replies :
                       /\ ResolvedWith(i, handled[k])
                       /\ waiters[s] = 0 /\ objects[s] = NoObj
            /\ (awaits = {} /\ Cardinality(replies) = 1) =>
                   \A k \in replies : objects[s] = handled[k] /\ waiters[s] = 0
            /\ (Cardinality(awaits) = 1 /\ replies = {}) =>
                   \A i \in awaits :
                       /\ calls[i].promise.state = "pending"
                       /\ waiters[s] = i /\ objects[s] = NoObj

\* the await of seq 1 has its reply, the reply for seq 2 is buffered
C7_Witness ==
    /\ Len(calls) = 1 /\ calls[1].request.seq = 1
    /\ ResolvedWith(1, Response(1))
    /\ waiters[1] = 0 /\ objects[1] = NoObj
    /\ objects[2] = RequestCompleted(2)

\* C8: no sequence number is a key of both maps.
C8_WaiterOrObject == WaiterKeys \cap ObjectKeys = {}

\* both maps hold an entry, under different keys
C8_Witness == waiters[1] # 0 /\ objects[2] # NoObj

\* C9: a kill on a handle that shows an exit or signal code resolves at once
\* and is not rejected, although no signal is sent; a kill of a live worker
\* whose signal is sent resolves when "close" has fired and not before; a
\* kill of a live worker whose signal cannot be sent rejects.
C9_KillOutcome ==
    \A who \in DOMAIN kills :
        LET k == kills[who]
        IN  k.called =>
                /\ k.exitedAtCall => k.promise.state = "resolved"
                /\ (~k.exitedAtCall /\ k.signalSent) =>
                       /\ k.promise.state # "rejected"
                       /\ k.promise.state = "resolved" <=> closed
                /\ (~k.exitedAtCall /\ ~k.signalSent) => k.promise.state = "rejected"

\* the driver killed a worker that had exited and not closed yet
C9_Witness ==
    /\ kills["driver"].called /\ kills["driver"].exitedAtCall
    /\ ~kills["driver"].signalSent /\ ~closed
    /\ kills["driver"].promise.state = "resolved"

\* C10: when the timer of exitOrKill fires on a live worker and the kill
\* signal cannot be sent, the promise of exitOrKill is rejected.
C10_KillFailureRejects ==
    LET k == kills["timer"]
    IN  (exitCall.sent /\ exitCall.timedOut /\ k.called /\ ~k.exitedAtCall
             /\ ~k.signalSent) =>
            exitCall.promise.state = "rejected"

\* C11: when the exit command of exitOrKill cannot be sent, the promise of
\* exitOrKill is rejected with that error and the call never calls kill,
\* neither when the timer runs out nor on a later "close".
C11_FailedExitDoesNotRace ==
    (exitCall.called /\ ~exitCall.sent) =>
        /\ exitCall.promise.state = "rejected"
        /\ exitCall.promise.value = "Server has exited"
        /\ exitCall.killCalls = 0
        /\ ~kills["timer"].called

\* C12: a resolved exitOrKill is true whenever the worker exited by itself
\* (its exit code is set) before the timer fired, also when the timer fires
\* between "exit" and "close"; it is false only when the kill of this call
\* sent the signal to a worker that had not exited.
C12_TrueIfExitedFalseIfKilled ==
    LET e == exitCall
        k == kills["timer"]
    IN  (e.called /\ e.sent /\ e.promise.state = "resolved") =>
            /\ e.promise.value = "false" =>
                   k.called /\ k.signalSent /\ ~k.exitedAtCall
            /\ (serverProc.exitCode # "null" /\ (k.called => k.exitedAtCall)) =>
                   e.promise.value = "true"

\* C13: a send of an "exit" request on a live handle hands the request to the
\* transport once and is resolved with undefined in the same turn; it
\* registers no waiter and leaves both maps and the earlier sends as they
\* are, and nothing the worker sends later changes it.
C13_ExitSendResolvesAtOnce ==
    [][/\ (/\ Len(calls') = Len(calls) + 1
           /\ ~Exited
           /\ calls'[Len(calls')].request.command = "exit") =>
              /\ written' = Append(written, [ipc |-> useNodeIpc,
                                             request |-> calls'[Len(calls')].request])
              /\ calls'[Len(calls')].promise =
                     [state |-> "resolved", value |-> UndefinedValue, calls |-> 1]
              /\ \A i \in DOMAIN calls : calls'[i] = calls[i]
              /\ UNCHANGED <<waiters, objects>>
       /\ \A i \in DOMAIN calls :
              (calls[i].request.command = "exit" /\ calls[i].promise.state = "resolved") =>
                  /\ calls'[i] = calls[i]
                  /\ \A k \in Keys : waiters'[k] # i]_vars

\* the exit request was sent, then the worker answered with its seq: the
\* answer is buffered and the send stays resolved with undefined
C13_Witness ==
    /\ Len(calls) = 1 /\ calls[1].request.command = "exit"
    /\ calls[1].promise = [state |-> "resolved", value |-> UndefinedValue, calls |-> 1]
    /\ written = <<[ipc |-> TRUE, request |-> calls[1].request]>>
    /\ handled = <<Response(calls[1].request.seq)>>
    /\ objects[calls[1].request.seq] = Response(calls[1].request.seq)
    /\ WaiterKeys = {}

\* the invocations one firing makes: each listener once, in the order given
Fired(kind, listeners, obj, code, signal) ==
    [n \in 1..Len(listeners) |-> Invocation(kind, listeners[n], obj, code, signal)]
\* the listeners of a list were registered in the order they stand in
InRegistrationOrder(listeners) ==
    \A m, n \in 1..Len(listeners) : m < n => listeners[m].id < listeners[n].id

Received == SubSeq(Frames(workerWrote, osEOL), 1, Arrived)
Removed == Arrived - unconsumedByteLength
\* the offset b of the body in a frame that starts the buffer, and the
\* number N its header announces
BodyOffset(obj) == IndexOf(Frame(obj, osEOL), "{", 0)
Announced(obj) == Len(Stringify(obj)) + 1
\* the bytes of a list of frames when each counts b + N + tail
RECURSIVE TreatedAs(_, _)
TreatedAs(objs, tail) ==
    IF objs = <<>> THEN 0
    ELSE BodyOffset(Head(objs)) + Announced(Head(objs)) + tail
             + TreatedAs(Tail(objs), tail)
\* the decoder has emitted the first frames the worker wrote, counting each
\* as b + N + tail bytes: it emitted none before that many bytes of it were
\* there and has removed that many bytes from the front for each
Framed(tail) ==
    /\ Len(handled) <= Len(workerWrote)
    /\ handled = SubSeq(workerWrote, 1, Len(handled))
    /\ Removed = TreatedAs(handled, tail)
    /\ Removed <= Arrived
    /\ unconsumedChunks = SubSeq(Received, Removed + 1, Arrived)

\* C15, as the code has it: a frame whose header announces N and whose body
\* starts at offset b counts b + N + (L - 1) bytes, L being the length of
\* os.EOL: b + N where the line end is one byte, b + N + 1 where it is two.
\* No object is emitted before that many bytes are buffered, and exactly
\* that many are removed from the front when it is.
C15_FrameLengthByLineEnd == Framed(Len(osEOL) - 1)

\* on a platform with a one-byte line end a frame was removed, and the
\* buffer holds the first bytes of the next
C15_Witness ==
    /\ osEOL = LF
    /\ Len(workerWrote) = 2 /\ Len(handled) = 1
    /\ unconsumedByteLength > 0
    /\ Removed = BodyOffset(handled[1]) + Announced(handled[1])

\* C15, as stated: every frame counts b + N + 1 bytes.
C15_FrameLengthPlusOne == Framed(1)

\* The data handler leaves a frame it holds whole in the buffer only when
\* JSON.parse threw on it, and only a listener that throws makes a dispatch
\* throw: with neither, the handler has returned normally from every chunk
\* since the parse last failed.
ParseFailed == currentByteLength >= 0 /\ unconsumedByteLength >= currentByteLength
ReturnsNormally == ~ParseFailed /\ ~Throws(eventListeners)
\* the broadcast events among the objects delivered, and those a listener saw
IsEvent(obj) == obj.type = "event" /\ obj.event # "requestCompleted"
SeenBy(listener) ==
    LET Mine(invocation) == invocation.listener = listener
        mine == SelectSeq(notified, Mine)
    IN  [n \in 1..Len(mine) |-> mine[n].obj]

\* C16: when the data handler returns normally from a chunk, the objects
\* passed to handleMessage so far are exactly those of the frames whose
\* bytes have all arrived, in the order the worker wrote them, however many
\* of them the chunk completed; and every event listener has seen the
\* broadcast events among them, in that order.
C16_FramesInOrderNoneWaiting ==
    ReturnsNormally =>
        /\ handled = CompleteFrames(workerWrote, Arrived)
        /\ \A n \in 1..Len(eventListeners) :
               SeenBy(eventListeners[n]) = SelectSeq(handled, IsEvent)

\* two events were written, both have been delivered and the listener, one
\* that returns, has seen them
C16_Witness ==
    /\ workerWrote = <<Broadcast, Broadcast>> /\ handled = workerWrote
    /\ stdout = <<>> /\ unconsumedByteLength = 0
    /\ Len(eventListeners) = 1 /\ ~eventListeners[1].throws
    /\ SeenBy(eventListeners[1]) = <<Broadcast, Broadcast>>
    /\ thrown = {}

\* C20: the bytes of a frame are dropped and the header state is reset
\* before its object is dispatched: the objects delivered are the first
\* frames the worker wrote, each once, and the bytes of each of them have
\* left the buffer, also after a listener threw during a dispatch and later
\* chunks came.
C20_ConsumedBeforeDispatch ==
    /\ Len(handled) <= Len(workerWrote)
    /\ handled = SubSeq(workerWrote, 1, Len(handled))
    /\ Removed = TreatedAs(handled, Len(osEOL) - 1)
    /\ Len(handled) <= Len(CompleteFrames(workerWrote, Arrived))
    /\ \A n \in 1..Len(eventListeners) :
           Len(SeenBy(eventListeners[n])) <= Len(SelectSeq(handled, IsEvent))

\* the listener threw on the first event; the second was delivered to it by
\* a later chunk, and the first was not delivered again
C20_Witness ==
    /\ workerWrote = <<Broadcast, Broadcast>> /\ handled = workerWrote
    /\ Len(eventListeners) = 1 /\ eventListeners[1].throws
    /\ "ListenerError" \in thrown
    /\ Len(notified) = 2
    /\ unconsumedByteLength = 0

\* the place of the malformed frame among the frames written
MalformedAt == CHOOSE k \in DOMAIN workerWrote : workerWrote[k] = Malformed
\* the malformed frame has arrived whole
MalformedArrived == Arrived >= Len(Frames(SubSeq(workerWrote, 1, MalformedAt), osEOL))

\* C17: a frame whose body is not JSON is never delivered and never
\* skipped: only frames written before it are delivered, its bytes and all
\* that follow stay in the buffer, and once it has arrived whole the parse
\* error has left the data handler and every frame before it has been
\* delivered, whatever chunks arrive afterwards.
C17_MalformedIsFatal ==
    /\ Len(handled) < MalformedAt
    /\ handled = SubSeq(workerWrote, 1, Len(handled))
    /\ Removed = TreatedAs(handled, Len(osEOL) - 1)
    /\ MalformedArrived =>
           /\ "SyntaxError" \in thrown
           /\ Len(handled) = MalformedAt - 1

\* the malformed frame came first and a good one after it: everything has
\* arrived, nothing was delivered, nothing has left the buffer
C17_Witness ==
    /\ workerWrote = <<Malformed, Response(1)>>
    /\ stdout = <<>>
    /\ handled = <<>>
    /\ thrown = {"SyntaxError"}
    /\ unconsumedByteLength = Len(Frames(workerWrote, osEOL))

\* C18: a step of kill or exitOrKill, and the exit and the close of the
\* worker, leave both maps and every send as they are; a pending send leaves
\* the pending state only in the step that delivers a reply carrying its
\* seq, and then it is resolved with that reply.
C18_ShutdownLeavesCorrelator ==
    [][/\ (kills' # kills \/ exitCall' # exitCall \/ serverProc' # serverProc
              \/ closed' # closed) =>
              UNCHANGED <<waiters, objects, calls>>
       /\ \A i \in DOMAIN calls :
              (calls[i].promise.state = "pending" /\ calls'[i] # calls[i]) =>
                  /\ Len(handled') = Len(handled) + 1
                  /\ IsReply(handled'[Len(handled')])
                  /\ Carried(handled'[Len(handled')]) = calls[i].request.seq
                  /\ calls'[i].promise.state = "resolved"
                  /\ calls'[i].promise.value = ObjectValue(handled'[Len(handled')])]_vars

\* the worker was killed and has closed, kill is done, and the send made
\* before is pending, its waiter still in the map
C18_Witness ==
    /\ Len(calls) = 1 /\ calls[1].promise.state = "pending"
    /\ waiters[calls[1].request.seq] = 1
    /\ kills["driver"].signalSent /\ kills["driver"].promise.state = "resolved"
    /\ serverProc.signalCode = "SIGKILL" /\ closed

\* the event completes a response: it is "requestCompleted" and its body
\* has a request_seq
CompletesResponse(obj) ==
    obj.event = "requestCompleted" /\ obj.body.present /\ obj.body.request_seq # 0

\* C19: every object of type "event" other than a "requestCompleted" event
\* with body.request_seq goes to the event listeners as a broadcast and adds
\* nothing to the buffered objects.
C19_EventsWithoutSeqAreBroadcast ==
    [][\A obj \in OddObjs :
           (Handles(obj) /\ obj.type = "event" /\ ~CompletesResponse(obj)) =>
               /\ notified' = notified \o Fired("event", eventListeners, obj, "null", "null")
               /\ objects' = objects]_vars

====
